---- MODULE Spec2Model ----
(***************************************************************************)
(* Front end of the coulstock C-like compiler: Lexer (include/lexer.hpp),  *)
(* Parser (include/parser.hpp) and SemanticAnalyzer                        *)
(* (include/semantic_analyzer.hpp).                                        *)
(*                                                                         *)
(* Source text is a sequence of one-character strings.  C++ indices are    *)
(* 0-based: `position` and `current` keep their C++ values, so the         *)
(* character input[position] of the code is input[position + 1] here.      *)
(***************************************************************************)
EXTENDS Integers, Sequences, FiniteSets, TLC

VARIABLES
    input,          \* Lexer::input
    lexer,          \* Lexer::position, Lexer::line, Lexer::column
    calls,          \* history: the calls made on the Lexer, with their outcome
    lastToken,      \* the Token returned by the most recent nextToken() call
    tokens,         \* the vector returned by the most recent tokenize() call
    starts,         \* history: offset in input at which each element of tokens began
    lexError,       \* the character named by the exception of the most recent call
    parserTokens,   \* Parser::tokens
    current,        \* Parser::current
    cursorPath,     \* history: every value Parser::current has taken, in order
    parseState,     \* "none" | "ready" | "ok" | "error"
    ast,            \* the tree returned by parseFunction()
    parseError,     \* the exception thrown by parseFunction()
    currentScope,   \* SemanticAnalyzer::currentScope, as the chain root..innermost
    scopeBefore,    \* history: currentScope when the most recent analyze() began
    root,           \* the argument of the most recent analyze() call
    result,         \* the outcome of the most recent analyze() call
    events,         \* history: the declare/use events of the most recent analyze()
    ncalls          \* number of analyze() calls made on the analyzer

lexVars == <<input, lexer, calls, lastToken, tokens, starts, lexError>>
parseVars == <<parserTokens, current, cursorPath, parseState, ast, parseError>>
semVars == <<currentScope, scopeBefore, root, result, events, ncalls>>
vars == <<lexVars, parseVars, semVars>>

----------------------------------------------------------------------------
(* Bounds of the model *)

\* most calls made on one Lexer object
MaxCalls == 3
\* most binary operators in an expression of a generated program
MaxBinOps == 1
\* most operands in a generated expression token sequence
MaxOperands == 4
\* most analyze() calls made on one SemanticAnalyzer object
MaxAnalyze == 2

----------------------------------------------------------------------------
(* Characters: <cctype> in the "C" locale, over the 7-bit characters used *)

NUL == "NUL"
Digit == {"0", "1", "2", "3", "4", "5", "6", "7", "8", "9"}
Lower == {"a", "b", "c", "d", "e", "f", "g", "h", "i", "j", "k", "l", "m",
          "n", "o", "p", "q", "r", "s", "t", "u", "v", "w", "x", "y", "z"}
Upper == {"A", "B", "C", "D", "E", "F", "G", "H", "I", "J", "K", "L", "M",
          "N", "O", "P", "Q", "R", "S", "T", "U", "V", "W", "X", "Y", "Z"}

isspace(c) == c \in {" ", "\t", "\n", "\r", "\f"}
isdigit(c) == c \in Digit
isalpha(c) == c \in Lower \cup Upper
isalnum(c) == isalpha(c) \/ isdigit(c)

----------------------------------------------------------------------------
(* Tokens *)

\* enum class TokenType.  GREATER_EQUAL and LESS_EQUAL are named by
\* Parser::parseComparison but are not enumerators: no Token has these types.
TokenType == {"INT", "FLOAT", "IF", "ELSE", "WHILE", "RETURN",
              "PLUS", "MINUS", "MULTIPLY", "DIVIDE", "ASSIGN",
              "EQUAL", "NOT_EQUAL", "LESS", "GREATER",
              "IDENTIFIER", "NUMBER", "LPAREN", "RPAREN", "LBRACE", "RBRACE",
              "SEMICOLON", "EOF_TOKEN"}

Token(t, v, l, c) == [type |-> t, value |-> v, line |-> l, column |-> c]

\* no Token: the call threw, or was never made
NoToken == [type |-> "none", value |-> <<>>, line |-> 0, column |-> 0]

\* Lexer::keywords
keywords(word) ==
    CASE word = <<"i", "n", "t">> -> "INT"
      [] word = <<"f", "l", "o", "a", "t">> -> "FLOAT"
      [] word = <<"i", "f">> -> "IF"
      [] word = <<"e", "l", "s", "e">> -> "ELSE"
      [] word = <<"w", "h", "i", "l", "e">> -> "WHILE"
      [] word = <<"r", "e", "t", "u", "r", "n">> -> "RETURN"
      [] OTHER -> "IDENTIFIER"

\* the switch of Lexer::nextToken: the type of a one-character token, or
\* "none" for the default case
SingleCharType(c) ==
    CASE c = "+" -> "PLUS"
      [] c = "-" -> "MINUS"
      [] c = "*" -> "MULTIPLY"
      [] c = "/" -> "DIVIDE"
      [] c = "=" -> "ASSIGN"
      [] c = "(" -> "LPAREN"
      [] c = ")" -> "RPAREN"
      [] c = "{" -> "LBRACE"
      [] c = "}" -> "RBRACE"
      [] c = ";" -> "SEMICOLON"
      [] OTHER -> "none"

----------------------------------------------------------------------------
(* Lexer.  A lexer state lx is [position, line, column]. *)

LexerInit == [position |-> 0, line |-> 1, column |-> 1]

LexPeek(in, lx) ==
    IF lx.position >= Len(in) THEN NUL ELSE in[lx.position + 1]

\* a plausible slip: the column is not reset when a newline is consumed
LexAdvance_NoColumnReset(in, lx) ==
    LET c == LexPeek(in, lx)
    IN  [ch |-> c,
         lx |-> [position |-> lx.position + 1,
                 line |-> IF c = "\n" THEN lx.line + 1 ELSE lx.line,
                 column |-> lx.column + 1]]

\* Lexer::advance: returns the character read and the lexer state after it
LexAdvance(in, lx) ==
    LET c == LexPeek(in, lx)
    IN  [ch |-> c,
         lx |-> [position |-> lx.position + 1,
                 line |-> IF c = "\n" THEN lx.line + 1 ELSE lx.line,
                 column |-> IF c = "\n" THEN 1 ELSE lx.column + 1]]

RECURSIVE skipWhitespace(_, _)
skipWhitespace(in, lx) ==
    IF isspace(LexPeek(in, lx))
    THEN skipWhitespace(in, LexAdvance(in, lx).lx)
    ELSE lx

\* the while loop of Lexer::readNumber
RECURSIVE readNumberLoop(_, _, _)
readNumberLoop(in, lx, res) ==
    IF isdigit(LexPeek(in, lx)) \/ LexPeek(in, lx) = "."
    THEN LET a == LexAdvance(in, lx)
         IN  readNumberLoop(in, a.lx, Append(res, a.ch))
    ELSE [text |-> res, lx |-> lx]

readNumber(in, lx) ==
    LET startColumn == lx.column
        r == readNumberLoop(in, lx, <<>>)
    IN  [tok |-> Token("NUMBER", r.text, r.lx.line, startColumn), lx |-> r.lx]

\* the while loop of Lexer::readIdentifier
RECURSIVE readIdentifierLoop(_, _, _)
readIdentifierLoop(in, lx, res) ==
    IF isalnum(LexPeek(in, lx)) \/ LexPeek(in, lx) = "_"
    THEN LET a == LexAdvance(in, lx)
         IN  readIdentifierLoop(in, a.lx, Append(res, a.ch))
    ELSE [text |-> res, lx |-> lx]

readIdentifier(in, lx) ==
    LET startColumn == lx.column
        r == readIdentifierLoop(in, lx, <<>>)
    IN  [tok |-> Token(keywords(r.text), r.text, r.lx.line, startColumn),
         lx |-> r.lx]

\* a plausible slip: the end-of-input branch consumes a character like the
\* other branches do
EndOfInputToken_Advancing(in, lx) ==
    [ok |-> TRUE, tok |-> Token("EOF_TOKEN", <<>>, lx.line, lx.column),
     start |-> lx.position, lx |-> LexAdvance(in, lx).lx, bad |-> NUL]

\* Lexer::nextToken, the branch taken at the end of the input
EndOfInputToken(in, lx) ==
    [ok |-> TRUE, tok |-> Token("EOF_TOKEN", <<>>, lx.line, lx.column),
     start |-> lx.position, lx |-> lx, bad |-> NUL]

\* Lexer::nextToken.  ok = FALSE is the throw of the default case, naming
\* the character `bad`; start is the offset at which the token begins.
nextToken(in, lx0) ==
    LET lx == skipWhitespace(in, lx0)
        c == LexPeek(in, lx)
        currentColumn == lx.column
    IN  IF lx.position >= Len(in) THEN EndOfInputToken(in, lx)
        ELSE IF isdigit(c)
        THEN LET r == readNumber(in, lx)
             IN  [ok |-> TRUE, tok |-> r.tok, start |-> lx.position,
                  lx |-> r.lx, bad |-> NUL]
        ELSE IF isalpha(c) \/ c = "_"
        THEN LET r == readIdentifier(in, lx)
             IN  [ok |-> TRUE, tok |-> r.tok, start |-> lx.position,
                  lx |-> r.lx, bad |-> NUL]
        ELSE LET a == LexAdvance(in, lx).lx
             IN  IF SingleCharType(c) # "none"
                 THEN [ok |-> TRUE,
                       tok |-> Token(SingleCharType(c), <<c>>, a.line, currentColumn),
                       start |-> lx.position, lx |-> a, bad |-> NUL]
                 ELSE [ok |-> FALSE, tok |-> NoToken, start |-> lx.position,
                       lx |-> a, bad |-> c]

\* the std::runtime_error thrown by the default case of Lexer::nextToken for
\* the character c: "Unexpected character: " + c, and nothing else
UnexpectedCharacter(c) ==
    [message |-> "Unexpected character: ", character |-> c,
     positioned |-> FALSE, line |-> 0, column |-> 0]

\* the loop of Lexer::tokenize: acc is the local vector, st the start offsets
RECURSIVE tokenizeLoop(_, _, _, _)
tokenizeLoop(in, lx, acc, st) ==
    LET r == nextToken(in, lx)
    IN  IF ~r.ok
        THEN [ok |-> FALSE, tokens |-> <<>>, starts |-> <<>>, lx |-> r.lx,
              bad |-> r.bad]
        ELSE IF r.tok.type = "EOF_TOKEN"
        THEN [ok |-> TRUE, tokens |-> Append(acc, r.tok),
              starts |-> Append(st, r.start), lx |-> r.lx, bad |-> NUL]
        ELSE tokenizeLoop(in, r.lx, Append(acc, r.tok), Append(st, r.start))

tokenize(in, lx) == tokenizeLoop(in, lx, <<>>, <<>>)

----------------------------------------------------------------------------
(* AST nodes (parser.hpp): one record per node class, tagged with its      *)
(* NodeType.                                                               *)

\* a null std::unique_ptr
NullNode == [type |-> "nullptr"]

NumberExpression(v) == [type |-> "NumberExpr", value |-> v]
IdentifierExpression(n) == [type |-> "IdentifierExpr", name |-> n]
BinaryExpression(l, op, r) ==
    [type |-> "BinaryExpr", left |-> l, op |-> op, right |-> r]
FunctionDeclaration(n, params, body) ==
    [type |-> "FunctionDecl", name |-> n, parameters |-> params, body |-> body]
VariableDeclaration(n, init) ==
    [type |-> "VarDecl", name |-> n, initializer |-> init]
ReturnStatement(v) == [type |-> "ReturnStmt", value |-> v]
IfStatement(c, t, e) ==
    [type |-> "IfStmt", condition |-> c, thenBranch |-> t, elseBranch |-> e]
BlockStatement(stmts) == [type |-> "BlockStmt", statements |-> stmts]

----------------------------------------------------------------------------
(* std::stod on a text over digits and '.': the longest prefix              *)
(* digits ['.' digits] is converted and the rest is ignored; a text with no *)
(* digit in that prefix throws std::invalid_argument.  The double is        *)
(* written num / 10^scale with no trailing zero in the fraction.            *)

DigitValue(c) ==
    CASE c = "0" -> 0 [] c = "1" -> 1 [] c = "2" -> 2 [] c = "3" -> 3
      [] c = "4" -> 4 [] c = "5" -> 5 [] c = "6" -> 6 [] c = "7" -> 7
      [] c = "8" -> 8 [] c = "9" -> 9

\* the length of the run of digits of text that starts at index i
RECURSIVE DigitRun(_, _)
DigitRun(text, i) ==
    IF i <= Len(text) /\ isdigit(text[i]) THEN 1 + DigitRun(text, i + 1) ELSE 0

RECURSIVE DigitsToNat(_)
DigitsToNat(ds) ==
    IF ds = <<>> THEN 0
    ELSE 10 * DigitsToNat(SubSeq(ds, 1, Len(ds) - 1)) + DigitValue(ds[Len(ds)])

RECURSIVE StripTrailingZeros(_)
StripTrailingZeros(ds) ==
    IF ds # <<>> /\ ds[Len(ds)] = "0"
    THEN StripTrailingZeros(SubSeq(ds, 1, Len(ds) - 1))
    ELSE ds

stod(text) ==
    LET ni == DigitRun(text, 1)
        hasDot == ni + 1 <= Len(text) /\ text[ni + 1] = "."
        nf == IF hasDot THEN DigitRun(text, ni + 2) ELSE 0
        frac == StripTrailingZeros(SubSeq(text, ni + 2, ni + 1 + nf))
    IN  IF ni + nf = 0
        THEN [ok |-> FALSE, value |-> [num |-> 0, scale |-> 0]]
        ELSE [ok |-> TRUE,
              value |-> [num |-> DigitsToNat(SubSeq(text, 1, ni) \o frac),
                         scale |-> Len(frac)]]

----------------------------------------------------------------------------
(* Parser.  A parser state p is [current, path]: Parser::current and the   *)
(* values it has taken.  The token vector toks is never written.           *)

ParserInit == [current |-> 0, path |-> <<0>>]

SetCurrent(p, n) == [current |-> n, path |-> Append(p.path, n)]

NoError == [message |-> "", positioned |-> FALSE, line |-> 0, column |-> 0,
            got |-> "", context |-> <<>>]

\* a std::runtime_error whose text ends " at line L, column C"
PositionedError(msg, tok) ==
    [message |-> msg, positioned |-> TRUE, line |-> tok.line,
     column |-> tok.column, got |-> "", context |-> <<>>]

\* a std::runtime_error whose text is msg followed by tokenTypeToString(type)
TokenTypeError(msg, type) ==
    [message |-> msg, positioned |-> FALSE, line |-> 0, column |-> 0,
     got |-> type, context |-> <<>>]

Parsed(node, p) ==
    [ok |-> TRUE, node |-> node, tok |-> NoToken, p |-> p, err |-> NoError]
Thrown(err, p) ==
    [ok |-> FALSE, node |-> NullNode, tok |-> NoToken, p |-> p, err |-> err]

\* the statements after a call that may throw: K is applied to its result when
\* it returns, and the exception propagates when it throws
Then(r, K(_)) == IF r.ok THEN K(r) ELSE r

\* catch (const std::exception &e) { throw std::runtime_error(ctx + e.what()); }
Rethrow(ctx, r) ==
    IF r.ok THEN r ELSE [r EXCEPT !.err.context = <<ctx>> \o @]

\* Parser::peek
peek(toks, p) ==
    IF p.current >= Len(toks) THEN toks[Len(toks)] ELSE toks[p.current + 1]

\* Parser::previous
previous(toks, p) == toks[p.current]

\* Parser::isAtEnd
isAtEnd(toks, p) == peek(toks, p).type = "EOF_TOKEN"

\* Parser::check
check(toks, p, type) ==
    IF isAtEnd(toks, p) THEN FALSE ELSE peek(toks, p).type = type

\* Parser::advance: the parser state after it (it returns previous())
advance(toks, p) ==
    IF ~isAtEnd(toks, p) THEN SetCurrent(p, p.current + 1) ELSE p

\* Parser::consume: tok is the token returned
consume(toks, p, type, message) ==
    IF check(toks, p, type)
    THEN [ok |-> TRUE, node |-> NullNode, tok |-> previous(toks, advance(toks, p)),
          p |-> advance(toks, p), err |-> NoError]
    ELSE Thrown(PositionedError(message, peek(toks, p)), p)

\* Parser::match
match(toks, p, type) ==
    IF check(toks, p, type)
    THEN [matched |-> TRUE, p |-> advance(toks, p)]
    ELSE [matched |-> FALSE, p |-> p]

\* a plausible slip: '+' is folded at the level of '*' and '/'
IsFactorOperator_WithPlus(toks, p) ==
    check(toks, p, "MULTIPLY") \/ check(toks, p, "DIVIDE") \/ check(toks, p, "PLUS")

\* the loop condition of Parser::parseFactor
IsFactorOperator(toks, p) ==
    check(toks, p, "MULTIPLY") \/ check(toks, p, "DIVIDE")

\* the loop condition of Parser::parseTerm
IsTermOperator(toks, p) ==
    check(toks, p, "PLUS") \/ check(toks, p, "MINUS")

\* the loop condition of Parser::parseComparison
IsComparisonOperator(toks, p) ==
    \/ check(toks, p, "GREATER") \/ check(toks, p, "GREATER_EQUAL")
    \/ check(toks, p, "LESS") \/ check(toks, p, "LESS_EQUAL")
    \/ check(toks, p, "EQUAL") \/ check(toks, p, "NOT_EQUAL")

RECURSIVE parseBlock(_, _)
RECURSIVE parseBlockLoop(_, _, _)
RECURSIVE parseStatement(_, _)
RECURSIVE parseExpression(_, _)
RECURSIVE parseComparison(_, _)
RECURSIVE parseComparisonLoop(_, _, _)
RECURSIVE parseTerm(_, _)
RECURSIVE parseTermLoop(_, _, _)
RECURSIVE parseFactor(_, _)
RECURSIVE parseFactorLoop(_, _, _)
RECURSIVE parsePrimary(_, _)

\* Parser::parsePrimary, the NUMBER case, after the token
ParseNumber(toks, p) ==
    IF stod(previous(toks, p).value).ok
    THEN Parsed(NumberExpression(stod(previous(toks, p).value).value), p)
    ELSE Thrown(TokenTypeError("stod", ""), p)

\* Parser::parsePrimary, the '(' case, after the token
ParseParenthesized(toks, p) ==
    Then(parseExpression(toks, p), LAMBDA expr :
    Then(consume(toks, expr.p, "RPAREN", "Expected ')' after expression"),
         LAMBDA rp : Parsed(expr.node, rp.p)))

parsePrimary(toks, p) ==
    IF match(toks, p, "NUMBER").matched
    THEN ParseNumber(toks, match(toks, p, "NUMBER").p)
    ELSE IF match(toks, p, "IDENTIFIER").matched
    THEN Parsed(IdentifierExpression(
                    previous(toks, match(toks, p, "IDENTIFIER").p).value),
                match(toks, p, "IDENTIFIER").p)
    ELSE IF match(toks, p, "LPAREN").matched
    THEN ParseParenthesized(toks, match(toks, p, "LPAREN").p)
    ELSE Thrown(TokenTypeError("Expected expression, got ", peek(toks, p).type), p)

\* the while loop of Parser::parseFactor: expr is the tree built so far
parseFactorLoop(toks, p, expr) ==
    IF IsFactorOperator(toks, p)
    THEN Then(parsePrimary(toks, advance(toks, p)), LAMBDA right :
              parseFactorLoop(toks, right.p,
                  BinaryExpression(expr, previous(toks, advance(toks, p)).type,
                                   right.node)))
    ELSE Parsed(expr, p)

parseFactor(toks, p) ==
    Then(parsePrimary(toks, p), LAMBDA first :
         parseFactorLoop(toks, first.p, first.node))

\* the while loop of Parser::parseTerm
parseTermLoop(toks, p, expr) ==
    IF IsTermOperator(toks, p)
    THEN Then(parseFactor(toks, advance(toks, p)), LAMBDA right :
              parseTermLoop(toks, right.p,
                  BinaryExpression(expr, previous(toks, advance(toks, p)).type,
                                   right.node)))
    ELSE Parsed(expr, p)

parseTerm(toks, p) ==
    Then(parseFactor(toks, p), LAMBDA first :
         parseTermLoop(toks, first.p, first.node))

\* the while loop of Parser::parseComparison
parseComparisonLoop(toks, p, expr) ==
    IF IsComparisonOperator(toks, p)
    THEN Then(parseTerm(toks, advance(toks, p)), LAMBDA right :
              parseComparisonLoop(toks, right.p,
                  BinaryExpression(expr, previous(toks, advance(toks, p)).type,
                                   right.node)))
    ELSE Parsed(expr, p)

parseComparison(toks, p) ==
    Then(parseTerm(toks, p), LAMBDA first :
         parseComparisonLoop(toks, first.p, first.node))

parseExpression(toks, p) ==
    Rethrow("In expression parsing: ", parseComparison(toks, p))

\* Parser::parseStatement, the 'return' case, after the keyword
ParseReturn(toks, p) ==
    Then(parseExpression(toks, p), LAMBDA expr :
    Then(consume(toks, expr.p, "SEMICOLON", "Expected ';' after return statement"),
         LAMBDA semi : Parsed(ReturnStatement(expr.node), semi.p)))

\* Parser::parseStatement, the 'if' case, after the keyword
ParseIf(toks, p) ==
    Then(consume(toks, p, "LPAREN", "Expected '(' after 'if'"), LAMBDA lp :
    Then(parseExpression(toks, lp.p), LAMBDA condition :
    Then(consume(toks, condition.p, "RPAREN", "Expected ')' after if condition"),
         LAMBDA rp :
    Then(parseStatement(toks, rp.p), LAMBDA thenBranch :
         IF match(toks, thenBranch.p, "ELSE").matched
         THEN Then(parseStatement(toks, match(toks, thenBranch.p, "ELSE").p),
                   LAMBDA elseBranch :
                       Parsed(IfStatement(condition.node, thenBranch.node,
                                          elseBranch.node), elseBranch.p))
         ELSE Parsed(IfStatement(condition.node, thenBranch.node, NullNode),
                     thenBranch.p)))))

\* Parser::parseStatement, the 'int' case, after the keyword
ParseVarDecl(toks, p) ==
    Then(consume(toks, p, "IDENTIFIER", "Expected variable name"), LAMBDA name :
    Then(consume(toks, name.p, "ASSIGN", "Expected '=' after variable name"),
         LAMBDA eq :
    Then(parseExpression(toks, eq.p), LAMBDA initializer :
    Then(consume(toks, initializer.p, "SEMICOLON",
                 "Expected ';' after variable declaration"),
         LAMBDA semi :
             Parsed(VariableDeclaration(name.tok.value, initializer.node),
                    semi.p)))))

\* a plausible slip: the '{' that match() consumed is not given back
ParseNestedBlock_NoUnconsume(toks, p) ==
    parseBlock(toks, p)

\* Parser::parseStatement, the '{' case: current-- and parseBlock()
ParseNestedBlock(toks, p) ==
    parseBlock(toks, SetCurrent(p, p.current - 1))

parseStatement(toks, p) ==
    Rethrow("In statement parsing: ",
        IF match(toks, p, "RETURN").matched
        THEN ParseReturn(toks, match(toks, p, "RETURN").p)
        ELSE IF match(toks, p, "IF").matched
        THEN ParseIf(toks, match(toks, p, "IF").p)
        ELSE IF match(toks, p, "INT").matched
        THEN ParseVarDecl(toks, match(toks, p, "INT").p)
        ELSE IF match(toks, p, "LBRACE").matched
        THEN ParseNestedBlock(toks, match(toks, p, "LBRACE").p)
        ELSE Thrown(TokenTypeError("Unexpected token: ", peek(toks, p).type), p))

\* the while loop of Parser::parseBlock: stmts is the local vector
parseBlockLoop(toks, p, stmts) ==
    IF ~check(toks, p, "RBRACE") /\ ~isAtEnd(toks, p)
    THEN Then(parseStatement(toks, p), LAMBDA stmt :
              parseBlockLoop(toks, stmt.p,
                  IF stmt.node # NullNode THEN Append(stmts, stmt.node) ELSE stmts))
    ELSE Parsed(BlockStatement(stmts), p)

parseBlock(toks, p) ==
    Rethrow("In block parsing: ",
        Then(consume(toks, p, "LBRACE", "Expected '{' before block"), LAMBDA lb :
        Then(parseBlockLoop(toks, lb.p, <<>>), LAMBDA body :
        Then(consume(toks, body.p, "RBRACE", "Expected '}' after block"),
             LAMBDA rb : Parsed(body.node, rb.p)))))

\* a plausible slip: the function must be followed by the end of the input
parseFunction_UntilEnd(toks, p) ==
    Rethrow("In function parsing: ",
        Then(consume(toks, p, "INT", "Expected 'int' before function declaration"),
             LAMBDA int :
        Then(consume(toks, int.p, "IDENTIFIER", "Expected function name"),
             LAMBDA name :
        Then(consume(toks, name.p, "LPAREN", "Expected '(' after function name"),
             LAMBDA lp :
        Then(consume(toks, lp.p, "RPAREN", "Expected ')' after parameters"),
             LAMBDA rp :
        Then(parseBlock(toks, rp.p), LAMBDA body :
             IF isAtEnd(toks, body.p)
             THEN Parsed(FunctionDeclaration(name.tok.value, <<>>, body.node),
                         body.p)
             ELSE Thrown(PositionedError("Expected end of input",
                                         peek(toks, body.p)), body.p)))))))

\* Parser::parseFunction
parseFunction(toks, p) ==
    Rethrow("In function parsing: ",
        Then(consume(toks, p, "INT", "Expected 'int' before function declaration"),
             LAMBDA int :
        Then(consume(toks, int.p, "IDENTIFIER", "Expected function name"),
             LAMBDA name :
        Then(consume(toks, name.p, "LPAREN", "Expected '(' after function name"),
             LAMBDA lp :
        Then(consume(toks, lp.p, "RPAREN", "Expected ')' after parameters"),
             LAMBDA rp :
        Then(parseBlock(toks, rp.p), LAMBDA body :
             Parsed(FunctionDeclaration(name.tok.value, <<>>, body.node),
                    body.p)))))))

----------------------------------------------------------------------------
(* Scope (semantic_analyzer.hpp).  A Scope object is written as the chain  *)
(* of `variables` maps from the root scope to itself: its last element is  *)
(* its own map (name -> is initialized), the chain without it its parent.  *)

EmptyMap == <<>>

Variables(scope) == scope[Len(scope)]
HasParent(scope) == Len(scope) > 1
Parent(scope) == SubSeq(scope, 1, Len(scope) - 1)

\* a new Scope(parent) with no variables
NewScope(parent) == Append(parent, EmptyMap)

\* the root Scope made by SemanticAnalyzer's constructor
RootScope == <<EmptyMap>>

RECURSIVE isDeclared(_, _)
isDeclared(scope, name) ==
    IF name \in DOMAIN Variables(scope) THEN TRUE
    ELSE IF HasParent(scope) THEN isDeclared(Parent(scope), name) ELSE FALSE

\* a plausible slip: a name counts as initialized when any scope of the chain
\* holds it initialized
RECURSIVE isInitialized_AnyScope(_, _)
isInitialized_AnyScope(scope, name) ==
    IF name \in DOMAIN Variables(scope) /\ Variables(scope)[name] THEN TRUE
    ELSE IF HasParent(scope) THEN isInitialized_AnyScope(Parent(scope), name)
    ELSE FALSE

RECURSIVE isInitialized(_, _)
isInitialized(scope, name) ==
    IF name \in DOMAIN Variables(scope) THEN Variables(scope)[name]
    ELSE IF HasParent(scope) THEN isInitialized(Parent(scope), name) ELSE FALSE

\* a plausible slip: the duplicate check looks through the whole chain
declare_WholeChain(scope, name) ==
    IF isDeclared(scope, name)
    THEN [ok |-> FALSE, scope |-> scope]
    ELSE [ok |-> TRUE,
          scope |-> Append(Parent(scope),
                           [n \in DOMAIN Variables(scope) \cup {name} |->
                               IF n = name THEN FALSE ELSE Variables(scope)[n]])]

\* a plausible slip: the duplicate check is missing and the entry overwritten
declare_Unchecked(scope, name) ==
    [ok |-> TRUE,
     scope |-> Append(Parent(scope),
                      [n \in DOMAIN Variables(scope) \cup {name} |->
                          IF n = name THEN FALSE ELSE Variables(scope)[n]])]

\* Scope::declare: ok = FALSE is the throw
declare(scope, name) ==
    IF name \in DOMAIN Variables(scope)
    THEN [ok |-> FALSE, scope |-> scope]
    ELSE [ok |-> TRUE,
          scope |-> Append(Parent(scope),
                           [n \in DOMAIN Variables(scope) \cup {name} |->
                               IF n = name THEN FALSE ELSE Variables(scope)[n]])]

RECURSIVE initialize(_, _)
initialize(scope, name) ==
    IF name \in DOMAIN Variables(scope)
    THEN Append(Parent(scope), [Variables(scope) EXCEPT ![name] = TRUE])
    ELSE IF HasParent(scope)
    THEN Append(initialize(Parent(scope), name), Variables(scope))
    ELSE scope

----------------------------------------------------------------------------
(* SemanticAnalyzer.  An analyzer state a is [scope, ok, err, events]:     *)
(* currentScope, whether no SemanticError has been thrown, the error       *)
(* thrown, and the history of declarations and identifier uses.            *)

NoSemanticError == [kind |-> "none", name |-> <<>>]
SemanticError(kind, name) == [kind |-> kind, name |-> name]

AnalyzerState(scope) ==
    [scope |-> scope, ok |-> TRUE, err |-> NoSemanticError, events |-> <<>>]

Throw(a, kind, name) ==
    [a EXCEPT !.ok = FALSE, !.err = SemanticError(kind, name)]

\* history: one declaration or identifier use, with currentScope before it
Event(op, name, scope, outcome) ==
    [op |-> op, name |-> name, scope |-> scope, outcome |-> outcome]

Log(a, e) == [a EXCEPT !.events = Append(@, e)]

\* auto blockScope = std::make_shared<Scope>(currentScope);
\* currentScope = blockScope;
PushScope(a) == [a EXCEPT !.scope = NewScope(@)]

\* a plausible slip: the saved scope is not restored
RestoreScope_Skipped(a, prevScope) == a

\* currentScope = prevScope;  prevScope is an ancestor of the current scope,
\* with whatever has been written to it since it was saved
RestoreScope(a, prevScope) ==
    [a EXCEPT !.scope = SubSeq(@, 1, Len(prevScope))]

\* SemanticAnalyzer::analyzeExpression, case IdentifierExpr
AnalyzeIdentifier(name, a) ==
    IF ~isDeclared(a.scope, name)
    THEN Throw(Log(a, Event("use", name, a.scope, "UndeclaredVariable")),
               "UndeclaredVariable", name)
    ELSE IF ~isInitialized(a.scope, name)
    THEN Throw(Log(a, Event("use", name, a.scope, "UninitializedVariable")),
               "UninitializedVariable", name)
    ELSE Log(a, Event("use", name, a.scope, "none"))

RECURSIVE analyzeExpression(_, _)
analyzeExpression(expr, a) ==
    CASE expr.type = "BinaryExpr" ->
           LET l == analyzeExpression(expr.left, a)
           IN  IF ~l.ok THEN l ELSE analyzeExpression(expr.right, l)
      [] expr.type = "IdentifierExpr" -> AnalyzeIdentifier(expr.name, a)
      [] expr.type = "NumberExpr" -> a
      [] OTHER -> Throw(a, "UnknownExpression", <<>>)

\* a plausible slip: the initializer is analyzed before the name is declared
AnalyzeVarDecl_InitializerFirst(varDecl, a) ==
    LET i == IF varDecl.initializer = NullNode THEN a
             ELSE analyzeExpression(varDecl.initializer, a)
        d == declare(i.scope, varDecl.name)
        i1 == Log(i, Event("declare", varDecl.name, i.scope,
                           IF d.ok THEN "none" ELSE "DuplicateDeclaration"))
    IN  IF ~i.ok THEN i
        ELSE IF ~d.ok THEN Throw(i1, "DuplicateDeclaration", varDecl.name)
        ELSE IF varDecl.initializer = NullNode THEN [i1 EXCEPT !.scope = d.scope]
        ELSE [i1 EXCEPT !.scope = initialize(d.scope, varDecl.name)]

\* SemanticAnalyzer::analyzeStatement, case VarDecl
AnalyzeVarDecl(varDecl, a) ==
    LET d == declare(a.scope, varDecl.name)
        a1 == Log(a, Event("declare", varDecl.name, a.scope,
                           IF d.ok THEN "none" ELSE "DuplicateDeclaration"))
    IN  IF ~d.ok THEN Throw(a1, "DuplicateDeclaration", varDecl.name)
        ELSE IF varDecl.initializer = NullNode
        THEN [a1 EXCEPT !.scope = d.scope]
        ELSE LET i == analyzeExpression(varDecl.initializer,
                                        [a1 EXCEPT !.scope = d.scope])
             IN  IF ~i.ok THEN i
                 ELSE [i EXCEPT !.scope = initialize(@, varDecl.name)]

RECURSIVE analyzeStatement(_, _)
RECURSIVE AnalyzeStatements(_, _)

\* the for loop of the BlockStmt case
AnalyzeStatements(stmts, a) ==
    IF stmts = <<>> THEN a
    ELSE LET s == analyzeStatement(Head(stmts), a)
         IN  IF ~s.ok THEN s ELSE AnalyzeStatements(Tail(stmts), s)

\* SemanticAnalyzer::analyzeStatement, case IfStmt
AnalyzeIf(ifStmt, a) ==
    LET c == analyzeExpression(ifStmt.condition, a)
    IN  IF ~c.ok THEN c
        ELSE
        LET prevScope == c.scope
            t == analyzeStatement(ifStmt.thenBranch, PushScope(c))
        IN  IF ~t.ok THEN t
            ELSE IF ifStmt.elseBranch = NullNode THEN RestoreScope(t, prevScope)
            ELSE LET e == analyzeStatement(ifStmt.elseBranch, t)
                 IN  IF ~e.ok THEN e ELSE RestoreScope(e, prevScope)

\* SemanticAnalyzer::analyzeStatement, case BlockStmt
AnalyzeBlock(block, a) ==
    LET prevScope == a.scope
        b == AnalyzeStatements(block.statements, PushScope(a))
    IN  IF ~b.ok THEN b ELSE RestoreScope(b, prevScope)

analyzeStatement(stmt, a) ==
    CASE stmt.type = "VarDecl" -> AnalyzeVarDecl(stmt, a)
      [] stmt.type = "IfStmt" -> AnalyzeIf(stmt, a)
      [] stmt.type = "BlockStmt" -> AnalyzeBlock(stmt, a)
      [] stmt.type = "ReturnStmt" -> analyzeExpression(stmt.value, a)
      [] OTHER -> Throw(a, "UnknownStatement", <<>>)

\* the for loop over func->parameters of SemanticAnalyzer::analyze
RECURSIVE DeclareParameters(_, _)
DeclareParameters(params, a) ==
    IF params = <<>> THEN a
    ELSE LET d == declare(a.scope, Head(params))
         IN  IF ~d.ok THEN Throw(a, "DuplicateDeclaration", Head(params))
             ELSE DeclareParameters(Tail(params),
                      [a EXCEPT !.scope = initialize(d.scope, Head(params))])

\* SemanticAnalyzer::analyze
analyze(rootStmt, a) ==
    IF rootStmt.type = "FunctionDecl"
    THEN LET prevScope == a.scope
             ps == DeclareParameters(rootStmt.parameters, PushScope(a))
         IN  IF ~ps.ok THEN ps
             ELSE LET b == analyzeStatement(rootStmt.body, ps)
                  IN  IF ~b.ok THEN b ELSE RestoreScope(b, prevScope)
    ELSE analyzeStatement(rootStmt, a)

----------------------------------------------------------------------------
(* Source texts given to the Lexer *)

\* main.cpp's input, the README's sample program:
\* "\nint main() {\n    int x = 42;\n    if (x > 0) {\n        return x * 2;\n    }\n    return 0;\n}\n"
SampleProgram ==
    <<"\n","i","n","t"," ","m","a","i","n","(",")"," ","{","\n"," "," "," "," ","i","n","t"," ",
      "x"," ","="," ","4","2",";","\n"," "," "," "," ","i","f"," ","(","x"," ",">"," ","0",")",
      " ","{","\n"," "," "," "," "," "," "," "," ","r","e","t","u","r","n"," ","x"," ","*"," ",
      "2",";","\n"," "," "," "," ","}","\n"," "," "," "," ","r","e","t","u","r","n"," ","0",";",
      "\n","}","\n">>
\* "x >= 1"
SrcGreaterEqual == <<"x"," ",">","="," ","1">>
\* "1 + 2 * 3"
SrcPrecedence == <<"1"," ","+"," ","2"," ","*"," ","3">>
\* "10 - 3 - 2"
SrcLeftAssoc == <<"1","0"," ","-"," ","3"," ","-"," ","2">>
\* "int f()\n{\n\treturn a1;\n}"
SrcMultiLine ==
    <<"i","n","t"," ","f","(",")","\n","{","\n","\t","r","e","t","u","r","n"," ","a","1",";",
      "\n","}">>
\* "\n\n  x1\n y = 2.5 ;\n"
SrcBlankLines ==
    <<"\n","\n"," "," ","x","1","\n"," ","y"," ","="," ","2",".","5"," ",";","\n">>
\* "x == 1", "x != 1", "x <= 1", "x >= 1"
TwoCharOperatorSource(op) == <<"x", " ">> \o op \o <<" ", "1">>
TwoCharOperators == {<<"=","=">>, <<"!","=">>, <<"<","=">>, <<">","=">>}
\* "int a = 1 @ 2;"
SrcBadChar == <<"i","n","t"," ","a"," ","="," ","1"," ","@"," ","2",";">>
\* ""
SrcEmpty == <<>>
\* "int main() { return ; }"
SrcNoExpression ==
    <<"i","n","t"," ","m","a","i","n","(",")"," ","{"," ","r","e","t","u","r","n"," ",";",
      " ","}">>
\* "int main() { return 1.2.3; }"
SrcTwoDots ==
    <<"i","n","t"," ","m","a","i","n","(",")"," ","{"," ","r","e","t","u","r","n"," ",
      "1",".","2",".","3",";"," ","}">>
\* "int main() { int y = 1..; }"
SrcDotDot ==
    <<"i","n","t"," ","m","a","i","n","(",")"," ","{"," ","i","n","t"," ","y"," ","="," ",
      "1",".",".",";"," ","}">>
\* "int main() { x = 1; }"
SrcNoStatement ==
    <<"i","n","t"," ","m","a","i","n","(",")"," ","{"," ","x"," ","="," ","1",";"," ","}">>

\* the lexemes of the grammar of README "Supported Syntax" / "Language
\* Features": keywords, names, literals, operators and punctuation
KwInt == <<"i","n","t">>
KwReturn == <<"r","e","t","u","r","n">>
KwIf == <<"i","f">>
KwElse == <<"e","l","s","e">>
NameMain == <<"m","a","i","n">>
BinaryOperatorLexemes ==
    {<<"+">>, <<"-">>, <<"*">>, <<"/">>, <<">">>, <<">","=">>, <<"<">>,
     <<"<","=">>, <<"=","=">>, <<"!","=">>}

\* the i-th operand of a generated expression: a name or a literal
OperandLexeme(i) == IF i % 2 = 1 THEN <<"x">> ELSE <<"1">>

\* the expressions with n binary operators, as sequences of lexemes
RECURSIVE ExpressionLexemes(_)
ExpressionLexemes(n) ==
    IF n = 0 THEN {<<OperandLexeme(1)>>}
    ELSE {e \o <<op, OperandLexeme(n + 1)>> :
            e \in ExpressionLexemes(n - 1), op \in BinaryOperatorLexemes}

\* one statement of each form of the grammar around the expression e
StatementLexemes(e) ==
    {<<KwReturn>> \o e \o <<<<";">>>>,
     <<KwInt, <<"y">>, <<"=">>>> \o e \o <<<<";">>>>,
     <<KwIf, <<"(">>>> \o e \o <<<<")">>, KwReturn, <<"1">>, <<";">>>>,
     <<KwIf, <<"(">>>> \o e
        \o <<<<")">>, KwReturn, <<"1">>, <<";">>, KwElse, KwReturn, <<"x">>, <<";">>>>,
     <<<<"{">>, KwReturn>> \o e \o <<<<";">>, <<"}">>>>}

\* function := 'int' IDENT '(' ')' block
FunctionLexemes(stmt) ==
    <<KwInt, NameMain, <<"(">>, <<")">>, <<"{">>>> \o stmt \o <<<<"}">>>>

\* the lexemes written one after the other, separated by one space
RECURSIVE Unwords(_)
Unwords(ls) ==
    IF Len(ls) = 0 THEN <<>>
    ELSE IF Len(ls) = 1 THEN ls[1]
    ELSE ls[1] \o <<" ">> \o Unwords(Tail(ls))

\* programs derivable from the grammar, with at most MaxBinOps operators in
\* their expression
GrammarPrograms ==
    {Unwords(FunctionLexemes(st)) :
        st \in UNION {StatementLexemes(e) :
                        e \in UNION {ExpressionLexemes(n) : n \in 0..MaxBinOps}}}

\* what may follow the '}' that closes the function body
TrailingLexemes ==
    {<<<<"}">>>>, <<<<";">>>>, <<<<"1">>>>, <<KwInt, <<"x">>>>, <<KwReturn, <<"x">>, <<";">>>>,
     <<KwInt, NameMain, <<"(">>, <<")">>, <<"{">>, <<"}">>>>}

\* a function definition of the grammar followed by more text
TrailingPrograms ==
    {Unwords(FunctionLexemes(st) \o t) :
        st \in StatementLexemes(<<OperandLexeme(1)>>), t \in TrailingLexemes}

Sources ==
    GrammarPrograms \cup TrailingPrograms \cup
    {SampleProgram, SrcGreaterEqual, SrcPrecedence, SrcLeftAssoc, SrcMultiLine,
     SrcBlankLines, SrcBadChar, SrcEmpty, SrcNoExpression, SrcNoStatement,
     SrcTwoDots, SrcDotDot}
    \cup {TwoCharOperatorSource(op) : op \in TwoCharOperators}

----------------------------------------------------------------------------
(* Token vectors given to the Parser directly *)

\* the binary operators among the enumerators of TokenType
BinaryOperatorTypes ==
    {"PLUS", "MINUS", "MULTIPLY", "DIVIDE", "GREATER", "LESS", "EQUAL", "NOT_EQUAL"}

DigitChar(i) ==
    CASE i = 0 -> "0" [] i = 1 -> "1" [] i = 2 -> "2" [] i = 3 -> "3" [] i = 4 -> "4"
      [] i = 5 -> "5" [] i = 6 -> "6" [] i = 7 -> "7" [] i = 8 -> "8" [] i = 9 -> "9"

\* the i-th operand of a generated expression: the literal i, or the name vi
OperandToken(i) ==
    IF i % 2 = 1 THEN [type |-> "NUMBER", value |-> <<DigitChar(i % 10)>>]
    ELSE [type |-> "IDENTIFIER", value |-> <<"v", DigitChar(i % 10)>>]

OperatorToken(type) == [type |-> type, value |-> <<>>]

\* the parenthesis-free expressions with n operands, as [type, value] sequences
RECURSIVE ExpressionTokens(_)
ExpressionTokens(n) ==
    IF n = 1 THEN {<<OperandToken(1)>>}
    ELSE {e \o <<OperatorToken(op), OperandToken(n)>> :
            e \in ExpressionTokens(n - 1), op \in BinaryOperatorTypes}

\* int f ( ) { return <e> ; } EOF
ReturnFunctionTokens(e) ==
    <<OperatorToken("INT"), [type |-> "IDENTIFIER", value |-> <<"f">>],
      OperatorToken("LPAREN"), OperatorToken("RPAREN"), OperatorToken("LBRACE"),
      OperatorToken("RETURN")>>
    \o e \o
    <<OperatorToken("SEMICOLON"), OperatorToken("RBRACE"), OperatorToken("EOF_TOKEN")>>

\* the Tokens of a [type, value] sequence, all on line 1, one column each
Positioned(tvs) ==
    [i \in 1..Len(tvs) |-> Token(tvs[i].type, tvs[i].value, 1, i)]

\* the tokens the Lexer returns for src, without the EOF token
LexedExpression(src) ==
    SubSeq(tokenize(src, LexerInit).tokens, 1, Len(tokenize(src, LexerInit).tokens) - 1)

ParserInputs ==
    {Positioned(ReturnFunctionTokens(e)) :
        e \in UNION {ExpressionTokens(n) : n \in 1..MaxOperands}
               \cup {LexedExpression(SrcPrecedence), LexedExpression(SrcLeftAssoc)}}

----------------------------------------------------------------------------
(* Trees given to the SemanticAnalyzer *)

NameX == <<"x">>
NameY == <<"y">>
Num(n) == NumberExpression([num |-> n, scale |-> 0])
Id(n) == IdentifierExpression(n)
Fn(stmts) == FunctionDeclaration(NameMain, <<>>, BlockStatement(stmts))

\* int main(){ return y; }
ProgUndeclared == Fn(<<ReturnStatement(Id(NameY))>>)
\* int main(){ int x = 1; if (x > 0) { int y = 2; } return y; }
ProgLeak ==
    Fn(<<VariableDeclaration(NameX, Num(1)),
         IfStatement(BinaryExpression(Id(NameX), "GREATER", Num(0)),
                     BlockStatement(<<VariableDeclaration(NameY, Num(2))>>),
                     NullNode),
         ReturnStatement(Id(NameY))>>)
\* int main(){ int x = 1; int x = 2; return x; }
ProgRedeclare ==
    Fn(<<VariableDeclaration(NameX, Num(1)), VariableDeclaration(NameX, Num(2)),
         ReturnStatement(Id(NameX))>>)
\* int main(){ int x = 1; if (x > 0) { int x = 2; return x; } return x; }
ProgShadow ==
    Fn(<<VariableDeclaration(NameX, Num(1)),
         IfStatement(BinaryExpression(Id(NameX), "GREATER", Num(0)),
                     BlockStatement(<<VariableDeclaration(NameX, Num(2)),
                                      ReturnStatement(Id(NameX))>>),
                     NullNode),
         ReturnStatement(Id(NameX))>>)
\* int main(){ int x = 1; { int x = x; } }
ProgSelfInitShadow ==
    Fn(<<VariableDeclaration(NameX, Num(1)),
         BlockStatement(<<VariableDeclaration(NameX, Id(NameX))>>)>>)
\* int main(){ if (1) int y = 1; else int y = 2; }
ProgIfElseBothDeclare ==
    Fn(<<IfStatement(Num(1), VariableDeclaration(NameY, Num(1)),
                     VariableDeclaration(NameY, Num(2)))>>)
\* int main(){ if (1) int y = 1; else return y; }
ProgIfElseUse ==
    Fn(<<IfStatement(Num(1), VariableDeclaration(NameY, Num(1)),
                     ReturnStatement(Id(NameY)))>>)

SimpleExpressions == {Num(1), Id(NameX), Id(NameY)}

SimpleStatements ==
    {VariableDeclaration(n, e) : n \in {NameX, NameY}, e \in SimpleExpressions}
    \cup {ReturnStatement(e) : e \in SimpleExpressions}

InnerStatements ==
    {VariableDeclaration(NameX, Num(1)), VariableDeclaration(NameY, Num(1)),
     VariableDeclaration(NameX, Id(NameX)), ReturnStatement(Id(NameX)),
     ReturnStatement(Id(NameY))}

\* blocks and ifs around the inner statements
Constructs ==
    {BlockStatement(<<i>>) : i \in InnerStatements}
    \cup {IfStatement(Num(1), i, NullNode) : i \in InnerStatements}
    \cup {IfStatement(Num(1), BlockStatement(<<i>>), NullNode) :
            i \in {VariableDeclaration(NameY, Num(1)), ReturnStatement(Id(NameX))}}
    \cup {IfStatement(Num(1), VariableDeclaration(NameY, Num(1)), j) :
            j \in InnerStatements}

FunctionBodies ==
    {<<s>> : s \in SimpleStatements \cup Constructs}
    \cup {<<s, t>> :
            s \in SimpleStatements,
            t \in {VariableDeclaration(NameX, Num(1)),
                   VariableDeclaration(NameY, Id(NameX)),
                   ReturnStatement(Id(NameX)), ReturnStatement(Id(NameY))}}
    \cup {<<s, c>> :
            s \in {VariableDeclaration(NameX, Num(1)), VariableDeclaration(NameY, Num(1))},
            c \in Constructs}
    \cup {<<c, t>> :
            c \in Constructs,
            t \in {ReturnStatement(Id(NameX)), ReturnStatement(Id(NameY))}}

\* statements given to analyze() that are not a FunctionDecl
BareStatements ==
    {VariableDeclaration(NameX, Num(1)), VariableDeclaration(NameX, Id(NameY)),
     ReturnStatement(Id(NameX)), ReturnStatement(Id(NameY)),
     BlockStatement(<<VariableDeclaration(NameX, Num(1))>>)}

AnalyzerInputs ==
    {Fn(b) : b \in FunctionBodies} \cup BareStatements
    \cup {ProgUndeclared, ProgLeak, ProgRedeclare, ProgShadow, ProgSelfInitShadow,
          ProgIfElseBothDeclare, ProgIfElseUse}

----------------------------------------------------------------------------
(* The state machines *)

LexerIdle ==
    /\ input = <<>>
    /\ lexer = LexerInit
    /\ calls = <<>>
    /\ lastToken = NoToken
    /\ tokens = <<>>
    /\ starts = <<>>
    /\ lexError = NUL

ParserIdle ==
    /\ parserTokens = <<>>
    /\ current = 0
    /\ cursorPath = <<>>
    /\ parseState = "none"
    /\ ast = NullNode
    /\ parseError = NoError

AnalyzerIdle ==
    /\ currentScope = RootScope
    /\ scopeBefore = RootScope
    /\ root = NullNode
    /\ result = NoSemanticError
    /\ events = <<>>
    /\ ncalls = 0

\* Lexer lexer(input), no Parser yet (main.cpp)
Init ==
    /\ input \in Sources
    /\ lexer = LexerInit
    /\ calls = <<>>
    /\ lastToken = NoToken
    /\ tokens = <<>>
    /\ starts = <<>>
    /\ lexError = NUL
    /\ ParserIdle
    /\ AnalyzerIdle

\* a call of lexer.nextToken()
CallNextToken ==
    /\ parseState = "none"
    /\ Len(calls) < MaxCalls
    /\ LET r == nextToken(input, lexer)
       IN  /\ lexer' = r.lx
           /\ lastToken' = r.tok
           /\ lexError' = r.bad
           /\ calls' = Append(calls, [op |-> "nextToken", ok |-> r.ok])
    /\ UNCHANGED <<input, tokens, starts, parseVars, semVars>>

\* a call of lexer.tokenize()
CallTokenize ==
    /\ parseState = "none"
    /\ Len(calls) < MaxCalls
    /\ LET r == tokenize(input, lexer)
       IN  /\ lexer' = r.lx
           /\ tokens' = r.tokens
           /\ starts' = r.starts
           /\ lexError' = r.bad
           /\ calls' = Append(calls, [op |-> "tokenize", ok |-> r.ok])
    /\ UNCHANGED <<input, lastToken, parseVars, semVars>>

\* Parser parser(tokens), with the vector the last call of tokenize returned
NewParser ==
    /\ parseState = "none"
    /\ calls # <<>>
    /\ calls[Len(calls)] = [op |-> "tokenize", ok |-> TRUE]
    /\ parserTokens' = tokens
    /\ current' = ParserInit.current
    /\ cursorPath' = ParserInit.path
    /\ parseState' = "ready"
    /\ UNCHANGED <<ast, parseError, lexVars, semVars>>

\* a call of parser.parseFunction()
CallParseFunction ==
    /\ parseState = "ready"
    /\ LET r == parseFunction(parserTokens, [current |-> current, path |-> cursorPath])
       IN  /\ current' = r.p.current
           /\ cursorPath' = r.p.path
           /\ parseState' = IF r.ok THEN "ok" ELSE "error"
           /\ ast' = r.node
           /\ parseError' = r.err
    /\ UNCHANGED <<parserTokens, lexVars, semVars>>

Next == CallNextToken \/ CallTokenize \/ NewParser \/ CallParseFunction

\* source text, Lexer, then Parser
Spec == Init /\ [][Next]_vars

\* Parser parser(tokens) on a token vector given directly
ParserInit0 ==
    /\ LexerIdle
    /\ parserTokens \in ParserInputs
    /\ current = ParserInit.current
    /\ cursorPath = ParserInit.path
    /\ parseState = "ready"
    /\ ast = NullNode
    /\ parseError = NoError
    /\ AnalyzerIdle

ParserNext == CallParseFunction

ParserSpec == ParserInit0 /\ [][ParserNext]_vars

\* SemanticAnalyzer analyzer
AnalyzerInit == LexerIdle /\ ParserIdle /\ AnalyzerIdle

\* a call of analyzer.analyze(r)
CallAnalyze ==
    /\ ncalls < MaxAnalyze
    /\ \E r \in AnalyzerInputs :
         LET a == analyze(r, AnalyzerState(currentScope))
         IN  /\ root' = r
             /\ scopeBefore' = currentScope
             /\ currentScope' = a.scope
             /\ result' = a.err
             /\ events' = a.events
    /\ ncalls' = ncalls + 1
    /\ UNCHANGED <<lexVars, parseVars>>

AnalyzerNext == CallAnalyze

AnalyzerSpec == AnalyzerInit /\ [][AnalyzerNext]_vars

----------------------------------------------------------------------------
(* Properties *)

Last(seq) == seq[Len(seq)]

TypesOf(toks) == [i \in 1..Len(toks) |-> toks[i].type]

\* the first call made on the Lexer was tokenize()
FreshTokenize == Len(calls) = 1 /\ calls[1].op = "tokenize"

\* C1: for every program derivable from the grammar, and for the README
\* sample program, tokenize on a fresh Lexer returns and parseFunction on its
\* result returns a FunctionDecl.
C1_ValidProgramsNeverFail ==
    (input \in GrammarPrograms \cup {SampleProgram} /\ FreshTokenize) =>
        /\ calls[1].ok
        /\ parseState \in {"ok", "error"} =>
               parseState = "ok" /\ ast.type = "FunctionDecl"

\* the kinds the claim gives for "x <op> 1", op a two-character operator
TwoCharOperatorType(op) ==
    CASE op = <<"=","=">> -> "EQUAL"
      [] op = <<"!","=">> -> "NOT_EQUAL"
      [] op = <<"<","=">> -> "LESS_EQUAL"
      [] op = <<">","=">> -> "GREATER_EQUAL"

\* C2: tokenizing "x >= 1" (and likewise "x == 1", "x != 1", "x <= 1") yields
\* exactly Identifier, the one two-character operator token, Number, and then
\* EndOfInput.
C2_TwoCharOperatorIsOneToken ==
    \A op \in TwoCharOperators :
        (input = TwoCharOperatorSource(op) /\ FreshTokenize) =>
            /\ calls[1].ok
            /\ TypesOf(tokens) =
                   <<"IDENTIFIER", TwoCharOperatorType(op), "NUMBER", "EOF_TOKEN">>

\* the binding strength of a binary operator: comparisons lowest
PrecedenceLevel(type) ==
    CASE type \in {"GREATER", "GREATER_EQUAL", "LESS", "LESS_EQUAL", "EQUAL",
                   "NOT_EQUAL"} -> 1
      [] type \in {"PLUS", "MINUS"} -> 2
      [] type \in {"MULTIPLY", "DIVIDE"} -> 3

\* the reference parse of a parenthesis-free expression: split at the last
\* operator of the weakest level present
RECURSIVE ReferenceParse(_)
ReferenceParse(ts) ==
    IF Len(ts) = 1
    THEN IF ts[1].type = "NUMBER" THEN NumberExpression(stod(ts[1].value).value)
         ELSE IdentifierExpression(ts[1].value)
    ELSE LET ops == {k \in 1..Len(ts) : k % 2 = 0}
             weakest == CHOOSE l \in 1..3 :
                            /\ \E k \in ops : PrecedenceLevel(ts[k].type) = l
                            /\ \A k \in ops : PrecedenceLevel(ts[k].type) >= l
             split == CHOOSE k \in ops :
                          /\ PrecedenceLevel(ts[k].type) = weakest
                          /\ \A j \in ops :
                                 PrecedenceLevel(ts[j].type) = weakest => j <= k
         IN  BinaryExpression(ReferenceParse(SubSeq(ts, 1, split - 1)),
                              ts[split].type,
                              ReferenceParse(SubSeq(ts, split + 1, Len(ts))))

\* the expression tokens of int f ( ) { return <e> ; } EOF
ExpressionOf(toks) == SubSeq(toks, 7, Len(toks) - 3)

\* C3: the tree parseExpression builds for a parenthesis-free expression is
\* the reference parse: * and / bind tighter than + and -, which bind tighter
\* than the comparisons, each level left-associative.
C3_PrecedenceAndAssociativity ==
    parseState \in {"ok", "error"} =>
        /\ parseState = "ok"
        /\ ast.body.statements =
               <<ReturnStatement(ReferenceParse(ExpressionOf(parserTokens)))>>

\* "1 + 2 * 3" has been parsed to BinaryExpr(+, 1, BinaryExpr(*, 2, 3))
C3_Witness ==
    /\ parseState = "ok"
    /\ TypesOf(ExpressionOf(parserTokens)) =
           <<"NUMBER", "PLUS", "NUMBER", "MULTIPLY", "NUMBER">>
    /\ ast.body.statements[1].value =
           BinaryExpression(Num(1), "PLUS", BinaryExpression(Num(2), "MULTIPLY", Num(3)))

\* the scopes of a chain that hold name as a key, as indices from the root
Holders(scope, name) == {k \in 1..Len(scope) : name \in DOMAIN scope[k]}

Innermost(ks) == CHOOSE k \in ks : \A j \in ks : j <= k

\* an event that threw is the last one, and its error is the call's result
ThrowsAs(i, kind) ==
    events[i].outcome = kind /\ i = Len(events)
    /\ result = SemanticError(kind, events[i].name)

\* C4: a VarDecl fails with DuplicateDeclaration naming the variable if and
\* only if the name is already a key of the current (innermost) scope: names
\* of ancestor scopes may be redeclared.  `int x = 1; int x = 2;` fails and
\* `int x = 1; if (x > 0) { int x = 2; return x; } return x;` succeeds.
C4_DuplicateOnlyInCurrentScope ==
    /\ \A i \in 1..Len(events) :
           events[i].op = "declare" =>
               IF events[i].name \in DOMAIN Variables(events[i].scope)
               THEN ThrowsAs(i, "DuplicateDeclaration")
               ELSE events[i].outcome = "none"
    /\ root = ProgRedeclare => result = SemanticError("DuplicateDeclaration", NameX)
    /\ root = ProgShadow => result = NoSemanticError

\* a name held by an ancestor scope has been redeclared without error
C4_Witness ==
    /\ root = ProgShadow
    /\ result = NoSemanticError
    /\ \E i \in 1..Len(events) :
           /\ events[i].op = "declare"
           /\ events[i].outcome = "none"
           /\ Holders(Parent(events[i].scope), events[i].name) # {}

\* the names declared anywhere inside a statement
RECURSIVE DeclaredInside(_)
DeclaredInside(stmt) ==
    CASE stmt.type = "VarDecl" -> {stmt.name}
      [] stmt.type = "BlockStmt" ->
             UNION {DeclaredInside(stmt.statements[i]) :
                      i \in 1..Len(stmt.statements)}
      [] stmt.type = "IfStmt" ->
             DeclaredInside(stmt.thenBranch) \cup
             (IF stmt.elseBranch = NullNode THEN {}
              ELSE DeclaredInside(stmt.elseBranch))
      [] OTHER -> {}

\* statement j of a function body is `return n;` where n is declared inside
\* an earlier block or if of the body, and neither by an earlier statement
\* of the body itself nor in the chain the call began with
UsesLeakedName(stmts, j, n, before) ==
    /\ stmts[j] = ReturnStatement(Id(n))
    /\ Holders(before, n) = {}
    /\ \A i \in 1..(j - 1) : ~(stmts[i].type = "VarDecl" /\ stmts[i].name = n)
    /\ \E i \in 1..(j - 1) :
           stmts[i].type \in {"BlockStmt", "IfStmt"} /\ n \in DeclaredInside(stmts[i])

\* C5: a variable declared inside a block or an if-branch is not visible
\* after that construct: a later `return n;` in the enclosing block, reached
\* without error, fails with UndeclaredVariable(n).
C5_BlockScopedNamesDoNotLeak ==
    (ncalls > 0 /\ root.type = "FunctionDecl") =>
        \A j \in 1..Len(root.body.statements), n \in {NameX, NameY} :
            ( /\ UsesLeakedName(root.body.statements, j, n, scopeBefore)
              /\ analyze(Fn(SubSeq(root.body.statements, 1, j - 1)),
                         AnalyzerState(scopeBefore)).ok )
            => result = SemanticError("UndeclaredVariable", n)

\* `int x = 1; if (x > 0) { int y = 2; } return y;` has failed on y
C5_Witness ==
    /\ root = ProgLeak
    /\ UsesLeakedName(root.body.statements, 3, NameY, scopeBefore)
    /\ result = SemanticError("UndeclaredVariable", NameY)

\* C6: an identifier is looked up from the current scope outward, stopping
\* at the first scope that holds it: held by none, UndeclaredVariable; held
\* there uninitialized, UninitializedVariable (whatever outer scopes hold);
\* otherwise no error.
C6_LookupStopsAtFirstScope ==
    \A i \in 1..Len(events) :
        events[i].op = "use" =>
            LET hs == Holders(events[i].scope, events[i].name)
            IN  IF hs = {} THEN ThrowsAs(i, "UndeclaredVariable")
                ELSE IF ~events[i].scope[Innermost(hs)][events[i].name]
                THEN ThrowsAs(i, "UninitializedVariable")
                ELSE events[i].outcome = "none"

\* a use found uninitialized in the innermost holder although an outer scope
\* holds the name initialized
C6_Witness ==
    /\ result.kind = "UninitializedVariable"
    /\ events # <<>>
    /\ Last(events).op = "use"
    /\ \E k \in Holders(Last(events).scope, Last(events).name) :
           Last(events).scope[k][Last(events).name]

\* C7: the else-branch of an If is analyzed in a fresh scope that is a
\* sibling of the then-branch's scope: `if (c) int y = 1; else int y = 2;`
\* succeeds and `if (c) int y = 1; else return y;` fails with
\* UndeclaredVariable.
C7_ElseBranchInSiblingScope ==
    (ncalls > 0 /\ Holders(scopeBefore, NameY) = {}) =>
        /\ root = ProgIfElseBothDeclare => result = NoSemanticError
        /\ root = ProgIfElseUse => result = SemanticError("UndeclaredVariable", NameY)

\* C8: after analyze returns or throws, the current scope is the scope that
\* was current before the call.  (During a call scopes are only pushed onto
\* the chain the call began with, so the scope at a given depth of the chain
\* is one object throughout.)
C8_ScopeRestoredAfterAnalyze ==
    ncalls > 0 => Len(currentScope) = Len(scopeBefore)

\* the line of the character at 0-based offset off: 1 + the newlines before it
LineAt(in, off) == 1 + Cardinality({k \in 1..off : in[k] = "\n"})

\* the column of the character at 0-based offset off: 1 + the characters
\* between the last newline before it and it
ColumnAt(in, off) ==
    LET nls == {k \in 1..off : in[k] = "\n"}
    IN  IF nls = {} THEN off + 1 ELSE off - Innermost(nls) + 1

\* a vector has been returned by tokenize()
Returned == tokens # <<>>

\* C9: a vector returned by tokenize holds exactly one EndOfInput token, its
\* last element; a later nextToken() returns that same token, and so does the
\* parser's peek at or beyond the last index.
C9_OneEndOfInputSentinel ==
    Returned =>
        /\ Last(tokens).type = "EOF_TOKEN"
        /\ \A i \in 1..(Len(tokens) - 1) : tokens[i].type # "EOF_TOKEN"
        /\ (Last(calls).op = "nextToken"
            /\ \E i \in 1..(Len(calls) - 1) : calls[i] = [op |-> "tokenize", ok |-> TRUE])
           => Last(calls).ok /\ lastToken = Last(tokens)
        /\ \A c \in (Len(tokens) - 1)..(Len(tokens) + 1) :
               peek(tokens, [current |-> c, path |-> <<>>]) = Last(tokens)

\* tokenize returned several tokens and a later nextToken() returned the
\* EndOfInput token again
C9_Witness ==
    /\ Len(tokens) > 1
    /\ Len(calls) > 1
    /\ calls[1] = [op |-> "tokenize", ok |-> TRUE]
    /\ Last(calls) = [op |-> "nextToken", ok |-> TRUE]
    /\ lastToken = Last(tokens)

\* C10: every token of a returned vector carries the 1-based line and column
\* of its first character (a newline starts a new line at column 1, any other
\* character advances the column by one); the EndOfInput token carries the
\* cursor's final line and column.  The README's output for the sample
\* program: 'int' at line 2, column 1 and 'main' at line 2, column 5.
C10_TokenPositions ==
    /\ Returned =>
           /\ \A i \in 1..Len(tokens) :
                  /\ tokens[i].line = LineAt(input, starts[i])
                  /\ tokens[i].column = ColumnAt(input, starts[i])
                  /\ tokens[i].value =
                         SubSeq(input, starts[i] + 1, starts[i] + Len(tokens[i].value))
                  /\ i < Len(tokens) => tokens[i].value # <<>>
           /\ Last(starts) = Len(input)
           /\ lexer.position = Len(input)
           /\ Last(tokens).line = lexer.line
           /\ Last(tokens).column = lexer.column
    /\ (input = SampleProgram /\ Len(calls) = 1 /\ calls[1].op = "nextToken")
           => lastToken = Token("INT", KwInt, 2, 1)
    /\ (input = SampleProgram /\ Len(calls) = 2 /\ calls[1].op = "nextToken"
        /\ calls[2].op = "nextToken")
           => lastToken = Token("IDENTIFIER", NameMain, 2, 5)

\* 'return' after two newlines and a tab is at line 3, column 2
C10_Witness ==
    /\ input = SrcMultiLine
    /\ FreshTokenize
    /\ \E i \in 1..Len(tokens) :
           tokens[i] = Token("RETURN", KwReturn, 3, 2) /\ starts[i] = 11

\* the last call made on the Lexer was tokenize() and it threw
TokenizeFailed == calls # <<>> /\ Last(calls) = [op |-> "tokenize", ok |-> FALSE]

\* the characters of the operators and punctuation the specification lists
ListedCharacters ==
    {"+", "-", "*", "/", "=", "!", "<", ">", "(", ")", "{", "}", ";"}

\* C11: when tokenize meets a character that starts no token (not whitespace,
\* digit, letter, '_' or a listed operator or punctuation character), the
\* error it fails with names that character and also its line and column.
C11_LexErrorNamesPosition ==
    (TokenizeFailed /\ lexError \notin ListedCharacters) =>
        /\ UnexpectedCharacter(lexError).character = input[lexer.position]
        /\ UnexpectedCharacter(lexError).positioned
        /\ UnexpectedCharacter(lexError).line = LineAt(input, lexer.position - 1)
        /\ UnexpectedCharacter(lexError).column = ColumnAt(input, lexer.position - 1)

\* the token at which parseFunction threw: the cursor does not move on a throw
OffendingToken == peek(parserTokens, [current |-> current, path |-> cursorPath])

\* C12: every failure raised by the parser carries a message stating what
\* was expected together with the line and column of the offending token.
C12_ParseErrorNamesPosition ==
    parseState = "error" =>
        /\ parseError.message # ""
        /\ parseError.positioned
        /\ parseError.line = OffendingToken.line
        /\ parseError.column = OffendingToken.column

\* a numeric literal is digits, optionally followed by '.' and digits: a text
\* with a second '.' is not one
ValidNumericText(text) ==
    /\ DigitRun(text, 1) > 0
    /\ \/ DigitRun(text, 1) = Len(text)
       \/ /\ text[DigitRun(text, 1) + 1] = "."
          /\ DigitRun(text, 1) + 1 + DigitRun(text, DigitRun(text, 1) + 2) = Len(text)

\* the Number tokens parseFunction has consumed: those before the cursor
ConsumedNumbers ==
    {i \in 1..current : parserTokens[i].type = "NUMBER"}

\* C13: a Number token whose text is not a valid numeric literal ("1.2.3",
\* "1..") makes parseFunction fail: when parseFunction returns a tree, every
\* Number token it consumed held a valid numeric literal.
C13_InvalidNumberFailsParse ==
    parseState = "ok" =>
        \A i \in ConsumedNumbers : ValidNumericText(parserTokens[i].value)

\* every call made on the Lexer so far was tokenize() and returned
OnlyTokenizeCalls ==
    /\ calls # <<>>
    /\ \A i \in 1..Len(calls) : calls[i] = [op |-> "tokenize", ok |-> TRUE]

\* C14: tokenizing the same source text twice yields identical token
\* sequences: whatever tokenize() calls came before, the vector tokenize()
\* returns is the one it returns for that text on a new Lexer.
C14_TokenizeDependsOnlyOnSource ==
    OnlyTokenizeCalls => tokens = tokenize(input, LexerInit).tokens

\* C15, as stated: at the moment a name is declared it is a key of at most
\* one Scope of the chain from the current scope to the root, the one it is
\* declared in: a declaration that goes through finds the name in no scope of
\* the chain.
C15_AtMostOneHolderInChain ==
    \A i \in 1..Len(events) :
        (events[i].op = "declare" /\ events[i].outcome = "none") =>
            Holders(events[i].scope, events[i].name) = {}

\* C15, amended: at the moment a name is declared it is a key of the current
\* scope exactly once, whatever the ancestor scopes hold: declare goes through
\* exactly when the current scope does not hold the name yet, adds it there
\* with flag false and leaves the ancestors as they are.
C15_AtMostOnceInCurrentScope ==
    \A i \in 1..Len(events) :
        events[i].op = "declare" =>
            LET before == events[i].scope
                name == events[i].name
                after == declare(before, name)
            IN  /\ (events[i].outcome = "none") = after.ok
                /\ after.ok = (Len(before) \notin Holders(before, name))
                /\ after.ok =>
                       /\ Holders(after.scope, name) =
                              Holders(before, name) \cup {Len(before)}
                       /\ ~Variables(after.scope)[name]
                       /\ Parent(after.scope) = Parent(before)
                /\ ~after.ok => ThrowsAs(i, "DuplicateDeclaration")

\* a name has been declared in a scope while an ancestor scope held it, and
\* a later use saw it as a key of two scopes of one chain
C15_Witness ==
    /\ result = NoSemanticError
    /\ \E i, j \in 1..Len(events) :
           /\ i < j
           /\ events[i].op = "declare" /\ events[i].outcome = "none"
           /\ Holders(events[i].scope, events[i].name) # {}
           /\ events[j].op = "use" /\ events[j].name = events[i].name
           /\ Cardinality(Holders(events[j].scope, events[j].name)) = 2

\* the names declared by the statements of a function body before the j-th
TopLevelNames(stmts, j) ==
    {stmts[i].name : i \in {k \in 1..(j - 1) : stmts[k].type = "VarDecl"}}

\* analyze() of the function whose body is the first j statements returns
AnalyzedThrough(stmts, j, before) ==
    analyze(Fn(SubSeq(stmts, 1, j)), AnalyzerState(before)).ok

\* C16: a VarDecl is handled as declare (flag false), analyze the
\* initializer, set the flag: a VarDecl reached without error whose name the
\* block already holds fails with DuplicateDeclaration whatever its
\* initializer is; otherwise `int n = n;` fails with UninitializedVariable(n),
\* also when an outer scope holds n initialized; and once the VarDecl has gone
\* through, a `return n;` right after it finds n initialized.
C16_DeclareThenInitializerThenFlag ==
    /\ (ncalls > 0 /\ root.type = "FunctionDecl") =>
           \A j \in 1..Len(root.body.statements) :
               LET stmts == root.body.statements
               IN  (stmts[j].type = "VarDecl"
                    /\ AnalyzedThrough(stmts, j - 1, scopeBefore)) =>
                       IF stmts[j].name \in TopLevelNames(stmts, j)
                       THEN result = SemanticError("DuplicateDeclaration", stmts[j].name)
                       ELSE IF stmts[j].initializer = Id(stmts[j].name)
                       THEN result = SemanticError("UninitializedVariable", stmts[j].name)
                       ELSE (AnalyzedThrough(stmts, j, scopeBefore)
                             /\ j + 1 = Len(stmts)
                             /\ stmts[j + 1] = ReturnStatement(Id(stmts[j].name)))
                            => result = NoSemanticError
    /\ root = ProgSelfInitShadow =>
           result = SemanticError("UninitializedVariable", NameX)

\* `int x = 1; { int x = x; }` has failed on the inner x: the last two events
\* are the inner declaration and the use that found it uninitialized, while
\* the enclosing block holds x initialized
C16_Witness ==
    /\ root = ProgSelfInitShadow
    /\ result = SemanticError("UninitializedVariable", NameX)
    /\ Len(events) = 3
    /\ events[2].op = "declare" /\ events[2].outcome = "none"
    /\ events[3].op = "use"
    /\ events[3].scope = declare(events[2].scope, NameX).scope
    /\ Parent(events[3].scope)[Len(events[3].scope) - 1][NameX]

\* C17: the parser is single-pass and non-backtracking: during parseFunction
\* the read cursor never moves backward (and never by more than one token
\* forward), and the token sequence is the one the parser was given.
C17_CursorNeverMovesBackward ==
    parseState \in {"ok", "error"} =>
        /\ \A i \in 1..(Len(cursorPath) - 1) :
               cursorPath[i] <= cursorPath[i + 1] /\ cursorPath[i + 1] <= cursorPath[i] + 1
        /\ parserTokens = tokens

\* "int main ( ) { { return x ; } }"
SrcNestedBlock ==
    Unwords(FunctionLexemes(<<<<"{">>, KwReturn, <<"x">>, <<";">>, <<"}">>>>))

\* C17, amended: during parseFunction the read cursor moves forward one
\* token at a time, except that on a statement that is a block it steps back
\* exactly one token, to the '{' it has just matched, and reads it again at
\* once; the token sequence is the one the parser was given.
C17_StepsBackOnlyToRereadBrace ==
    /\ parseState \in {"ok", "error"} =>
           /\ parserTokens = tokens
           /\ \A i \in 1..(Len(cursorPath) - 1) :
                  \/ cursorPath[i + 1] = cursorPath[i] + 1
                  \/ /\ cursorPath[i + 1] = cursorPath[i] - 1
                     /\ parserTokens[cursorPath[i]].type = "LBRACE"
                     /\ i > 1
                     /\ cursorPath[i - 1] = cursorPath[i + 1]
                     /\ i + 2 <= Len(cursorPath)
                     /\ cursorPath[i + 2] = cursorPath[i]
    /\ (input = SrcNestedBlock /\ FreshTokenize /\ parseState \in {"ok", "error"}) =>
           /\ parseState = "ok"
           /\ cursorPath = <<0, 1, 2, 3, 4, 5, 6, 5, 6, 7, 8, 9, 10, 11>>
           /\ ast.body.statements =
                  <<BlockStatement(<<ReturnStatement(Id(NameX))>>)>>

\* a function whose body holds a block statement has been parsed, the cursor
\* having stepped back from 6 to 5 on the inner '{'
C17_Witness ==
    /\ parseState = "ok"
    /\ input = SrcNestedBlock
    /\ FreshTokenize
    /\ \E i \in 1..(Len(cursorPath) - 1) :
           cursorPath[i] = 6 /\ cursorPath[i + 1] = 5
           /\ parserTokens[6].type = "LBRACE"

\* the EndOfInput token that ends the parser's token sequence
EndToken == Last(parserTokens)

\* the first k tokens of the parser's sequence, ended by EndOfInput
PrefixTokens(k) == Append(SubSeq(parserTokens, 1, k), EndToken)

\* the first k tokens are a function definition of the grammar: parseFunction
\* returns on them, having read all k
IsFunctionPrefix(k) ==
    /\ parseFunction(PrefixTokens(k), ParserInit).ok
    /\ parseFunction(PrefixTokens(k), ParserInit).p.current = k

\* C18: parseFunction stops right after the '}' that closes the function
\* body and does not require EndOfInput next: when a prefix of the token
\* sequence is a function definition, parseFunction returns the FunctionDecl
\* of that prefix with the cursor right after the '}', whatever tokens stand
\* between it and EndOfInput.
C18_TrailingTokensIgnored ==
    (parseState \in {"ok", "error"} /\ Len(parserTokens) > 1) =>
        \A k \in 1..(Len(parserTokens) - 1) :
            IsFunctionPrefix(k) =>
                /\ parseState = "ok"
                /\ current = k
                /\ parserTokens[k].type = "RBRACE"
                /\ ast = parseFunction(PrefixTokens(k), ParserInit).node
                /\ ast.type = "FunctionDecl"

\* `int main ( ) { return x ; } int x` has been parsed to the function that
\* returns x, the cursor at 9 with `int x` unread before EndOfInput
C18_Witness ==
    /\ parseState = "ok"
    /\ TypesOf(parserTokens) =
           <<"INT", "IDENTIFIER", "LPAREN", "RPAREN", "LBRACE", "RETURN", "IDENTIFIER",
             "SEMICOLON", "RBRACE", "INT", "IDENTIFIER", "EOF_TOKEN">>
    /\ current = 9
    /\ ast = Fn(<<ReturnStatement(Id(NameX))>>)

====
